---- MODULE Spec2Model ----
(***************************************************************************)
(* Tick loop, admission limiter, client handoff channel and shutdown       *)
(* protocol of crates/valence_new/src/server.rs.                           *)
(*                                                                         *)
(* Threads of the model:                                                   *)
(*   - the thread that called run_server (startup, then the tick loop),    *)
(*     one action per statement that another thread can observe;           *)
(*   - the threads that call SharedServer::shutdown (two statements each); *)
(*   - the connection tasks of the accept subsystem (server/connect.rs,    *)
(*     not part of this file): acquire a permit, send a handoff message.   *)
(***************************************************************************)
EXTENDS Integers, Sequences, FiniteSets, TLC

\* ---------------------------------------------------------------- bounds
\* cfg.max_connections, the capacity of connection_sema
MaxConnections == 2
\* number of threads that call SharedServer::shutdown
NumCallers == 2
\* the loop does not start an iteration once current_tick has reached this
MaxTick == 3

\* flume::bounded(64)
ChannelCap == 64

\* one connection task more than there are permits
NumTasks == MaxConnections + 1
Tasks == 1..NumTasks
Callers == 1..NumCallers

\* ------------------------------------------------------------ values
\* Option<T>: None is the empty sequence, Some(v) is <<v>>
None == << >>
Some(v) == << v >>

\* Result<(), E> as passed to shutdown: e is the caller's error value
OkArg == [ok |-> TRUE, e |-> "none"]
ErrArg(e) == [ok |-> FALSE, e |-> e]
Errors == {"e1"}
Args == {OkArg} \cup {ErrArg(e) : e \in Errors}

\* anyhow::Result<()>: the error is an anyhow::Error made from a source value
AnyOk == [ok |-> TRUE, anyhow |-> "none"]
AnyErr(src) == [ok |-> FALSE, anyhow |-> src]

\* the configurations run_server is started with
Configs == [tick_rate : {-1, 0, 20}, incoming_capacity : {0, 16}, outgoing_capacity : {0, 16}]

VARIABLES
    cfg,              \* the Config passed to run_server
    pc,               \* position of the run_server thread
    retval,           \* Option: what run_server returned
    current_tick,     \* Server::current_tick
    shutdown_result,  \* SharedServerInner::shutdown_result (Option)
    sema_closed,      \* connection_sema has been closed
    sema_permits,     \* permits available in connection_sema
    new_clients,      \* messages in the handoff channel, oldest first; a message
                      \* is [conn, seq]: its connection, and (history) the rank
                      \* of its send among the completed sends
    range_left,       \* iterations left of `for _ in 0..len`
    msg,              \* Option: the `msg` binding of the intake loop body
    entities,         \* live Client entities of cfg.world, each named by the
                      \* connection of the message it was spawned for
    accept_spawns,    \* times do_accept_loop was spawned
    task,             \* state of each connection task
    sd_pc,            \* position of each shutdown caller
    last_write,       \* history: Option, argument of the latest write to the slot
    taken_write,      \* history: last_write when the loop took the slot
    recv_log,         \* history: seq of the messages in the order try_recv
                      \* returned them
    spawned,          \* history: number of world.spawn calls
    released,         \* history: connections whose message's permit was released
    tick_snapshot,    \* history: seq of the messages queued when the intake read
                      \* len(); kept until the tick's pass has run
    tick_recv,        \* history: seq of the messages received in that intake
    last_tick_duration, \* Server::last_tick_duration, in nanoseconds
    slept,            \* history: the argument of the latest thread::sleep
    passes            \* history: number of schedule.run_once calls completed

vars == << cfg, pc, retval, current_tick, shutdown_result, sema_closed,
           sema_permits, new_clients, range_left, msg, entities, accept_spawns,
           task, sd_pc, last_write, taken_write, recv_log, spawned,
           released, tick_snapshot, tick_recv, last_tick_duration, slept,
           passes >>

\* per-tick state of the Server resource and its history
tickVars == << last_tick_duration, slept, passes >>

loopVars == << pc, retval, current_tick, range_left, msg, entities,
               accept_spawns, taken_write, recv_log, spawned, tick_snapshot,
               tick_recv, tickVars >>
histLoop == << taken_write, recv_log, spawned, tick_snapshot, tick_recv,
               tickVars >>

Init ==
    /\ cfg \in Configs
    /\ pc = "start"
    /\ retval = None
    /\ current_tick = 0
    /\ shutdown_result = None
    /\ sema_closed = FALSE
    /\ sema_permits = 0
    /\ new_clients = << >>
    /\ range_left = 0
    /\ msg = None
    /\ entities = {}
    /\ accept_spawns = 0
    /\ task = [c \in Tasks |-> "connecting"]
    /\ sd_pc = [t \in Callers |-> "idle"]
    /\ last_write = None
    /\ taken_write = None
    /\ recv_log = << >>
    /\ spawned = 0
    /\ released = {}
    /\ tick_snapshot = << >>
    /\ tick_recv = << >>
    /\ last_tick_duration = 0
    /\ slept = 0
    /\ passes = 0

\* ------------------------------------------------------ run_server: startup
\* mutant: the limiter is built with one permit too many
connection_sema_new_plus_one == MaxConnections + 1

\* Semaphore::new(cfg.max_connections)
connection_sema_new == MaxConnections

\* res.map_err(|e| e.into()): the caller's error becomes the anyhow::Error
MapErr(res) == IF res.ok THEN AnyOk ELSE AnyErr(res.e)

\* mutant: the outgoing capacity is not checked
Validate_skips_outgoing(c) ==
    IF ~(c.tick_rate > 0)
        THEN Some(AnyErr("configured tick rate must be greater than zero"))
    ELSE IF ~(c.incoming_capacity > 0)
        THEN Some(AnyErr("configured incoming packet capacity must be nonzero"))
    ELSE None

\* the three ensure! checks, in order: the error of the first that fails
Validate(c) ==
    IF ~(c.tick_rate > 0)
        THEN Some(AnyErr("configured tick rate must be greater than zero"))
    ELSE IF ~(c.incoming_capacity > 0)
        THEN Some(AnyErr("configured incoming packet capacity must be nonzero"))
    ELSE IF ~(c.outgoing_capacity > 0)
        THEN Some(AnyErr("configured outgoing packet capacity must be nonzero"))
    ELSE None

\* mutant: a failed startup closes the limiter
Startup_closes_on_error ==
    /\ pc = "start"
    /\ IF Validate(cfg) # None
         THEN /\ retval' = Validate(cfg)
              /\ pc' = "failed"
              /\ sema_closed' = TRUE
              /\ UNCHANGED sema_permits
         ELSE \E outcome \in {"ok", "RsaPrivateKey::new", "Runtime::new"} :
                IF outcome = "ok"
                  THEN /\ sema_permits' = connection_sema_new
                       /\ pc' = "check"
                       /\ UNCHANGED << retval, sema_closed >>
                  ELSE /\ retval' = Some(AnyErr(outcome))
                       /\ pc' = "failed"
                       /\ sema_closed' = TRUE
                       /\ UNCHANGED sema_permits
    /\ UNCHANGED << cfg, current_tick, shutdown_result, new_clients,
                    range_left, msg, entities, accept_spawns, task, sd_pc,
                    last_write, released, histLoop >>

\* everything before `loop`: validation, key and runtime creation (either can
\* fail and is propagated by `?`), construction of the shared state
Startup ==
    /\ pc = "start"
    /\ IF Validate(cfg) # None
         THEN /\ retval' = Validate(cfg)
              /\ pc' = "failed"
              /\ UNCHANGED sema_permits
         ELSE \E outcome \in {"ok", "RsaPrivateKey::new", "Runtime::new"} :
                IF outcome = "ok"
                  THEN /\ sema_permits' = connection_sema_new
                       /\ pc' = "check"
                       /\ UNCHANGED retval
                  ELSE /\ retval' = Some(AnyErr(outcome))
                       /\ pc' = "failed"
                       /\ UNCHANGED sema_permits
    /\ UNCHANGED << cfg, current_tick, shutdown_result, sema_closed, new_clients,
                    range_left, msg, entities, accept_spawns, task, sd_pc,
                    last_write, released, histLoop >>

\* ---------------------------------------------------- run_server: tick loop
\* mutant: the check reads the slot without acting on it
ShutdownCheck_ignores_slot ==
    /\ pc = "check"
    /\ current_tick < MaxTick
    /\ pc' = "intake"
    /\ UNCHANGED << cfg, retval, shutdown_result, taken_write, current_tick,
                    sema_closed, sema_permits, new_clients, range_left, msg,
                    entities, accept_spawns, task, sd_pc, last_write, recv_log, spawned, released, tick_snapshot, tick_recv,
                    tickVars >>

\* mutant: the check takes the result and returns success whatever it was
ShutdownCheck_returns_ok ==
    /\ pc = "check"
    /\ \/ /\ shutdown_result # None
          /\ retval' = Some(AnyOk)
          /\ shutdown_result' = None
          /\ taken_write' = last_write
          /\ pc' = "returned"
       \/ /\ shutdown_result = None
          /\ current_tick < MaxTick
          /\ pc' = "intake"
          /\ UNCHANGED << retval, shutdown_result, taken_write >>
    /\ UNCHANGED << cfg, current_tick, sema_closed, sema_permits, new_clients,
                    range_left, msg, entities, accept_spawns, task, sd_pc,
                    last_write, recv_log, spawned, released,
                    tick_snapshot, tick_recv, tickVars >>

\* mutant: the check comes after the intake and the pass: the iteration that
\* finds a result still drains the channel and runs a pass before it returns
ShutdownCheck_after_tick ==
    /\ pc = "check"
    /\ \/ /\ shutdown_result # None
          /\ retval # None
          /\ shutdown_result' = None
          /\ pc' = "returned"
          /\ UNCHANGED << retval, taken_write >>
       \/ /\ shutdown_result # None
          /\ retval = None
          /\ retval' = Some(shutdown_result[1])
          /\ taken_write' = last_write
          /\ pc' = "intake"
          /\ UNCHANGED shutdown_result
       \/ /\ shutdown_result = None
          /\ current_tick < MaxTick
          /\ pc' = "intake"
          /\ UNCHANGED << retval, shutdown_result, taken_write >>
    /\ UNCHANGED << cfg, current_tick, sema_closed, sema_permits, new_clients,
                    range_left, msg, entities, accept_spawns, task, sd_pc,
                    last_write, recv_log, spawned, released,
                    tick_snapshot, tick_recv, tickVars >>

\* mutant: the loop also ends, with success, after a maximum number of ticks
ShutdownCheck_tick_limit ==
    /\ pc = "check"
    /\ \/ /\ shutdown_result # None
          /\ retval' = Some(shutdown_result[1])
          /\ shutdown_result' = None
          /\ taken_write' = last_write
          /\ pc' = "returned"
       \/ /\ shutdown_result = None
          /\ current_tick < MaxTick - 1
          /\ pc' = "intake"
          /\ UNCHANGED << retval, shutdown_result, taken_write >>
       \/ /\ shutdown_result = None
          /\ current_tick = MaxTick - 1
          /\ retval' = Some(AnyOk)
          /\ pc' = "returned"
          /\ UNCHANGED << shutdown_result, taken_write >>
    /\ UNCHANGED << cfg, current_tick, sema_closed, sema_permits, new_clients,
                    range_left, msg, entities, accept_spawns, task, sd_pc,
                    last_write, recv_log, spawned, released,
                    tick_snapshot, tick_recv,
                    tickVars >>

\* `if let Some(res) = shutdown_result.lock().unwrap().take() { return res; }`
ShutdownCheck ==
    /\ pc = "check"
    /\ \/ /\ shutdown_result # None
          /\ retval' = Some(shutdown_result[1])
          /\ shutdown_result' = None
          /\ taken_write' = last_write
          /\ pc' = "returned"
       \/ /\ shutdown_result = None
          /\ current_tick < MaxTick
          /\ pc' = "intake"
          /\ UNCHANGED << retval, shutdown_result, taken_write >>
    /\ UNCHANGED << cfg, current_tick, sema_closed, sema_permits, new_clients,
                    range_left, msg, entities, accept_spawns, task, sd_pc,
                    last_write, recv_log, spawned, released,
                    tick_snapshot, tick_recv,
                    tickVars >>

\* `0..shared.0.new_clients_recv.len()`: the range is built once
IntakeLen ==
    /\ pc = "intake"
    /\ range_left' = Len(new_clients)
    /\ tick_snapshot' = [i \in 1..Len(new_clients) |-> new_clients[i].seq]
    /\ tick_recv' = << >>
    /\ pc' = "recv"
    /\ UNCHANGED << cfg, retval, current_tick, shutdown_result, sema_closed,
                    sema_permits, new_clients, msg, entities, accept_spawns,
                    task, sd_pc, last_write, taken_write, recv_log,
                    spawned, released,
                    tickVars >>

\* mutant: the drain goes on until the channel is empty (len() read again on
\* every iteration instead of once)
TryRecv_until_empty ==
    /\ pc = "recv"
    /\ IF new_clients = << >>
         THEN /\ pc' = "simulate"
              /\ range_left' = 0
              /\ UNCHANGED << new_clients, msg, recv_log, tick_recv >>
         ELSE /\ msg' = Some(Head(new_clients))
              /\ new_clients' = Tail(new_clients)
              /\ range_left' = Len(new_clients) - 1
              /\ recv_log' = Append(recv_log, Head(new_clients).seq)
              /\ tick_recv' = Append(tick_recv, Head(new_clients).seq)
              /\ pc' = "spawn"
    /\ UNCHANGED << cfg, retval, current_tick, shutdown_result, sema_closed,
                    sema_permits, entities, accept_spawns, task, sd_pc,
                    last_write, taken_write, spawned, released,
                    tick_snapshot,
                    tickVars >>

\* mutant: the channel hands out its newest message first
TryRecv_newest_first ==
    /\ pc = "recv"
    /\ IF range_left = 0 \/ new_clients = << >>
         THEN /\ pc' = "simulate"
              /\ range_left' = 0
              /\ UNCHANGED << new_clients, msg, recv_log, tick_recv >>
         ELSE /\ msg' = Some(new_clients[Len(new_clients)])
              /\ new_clients' = SubSeq(new_clients, 1, Len(new_clients) - 1)
              /\ range_left' = range_left - 1
              /\ recv_log' = Append(recv_log, new_clients[Len(new_clients)].seq)
              /\ tick_recv' = Append(tick_recv, new_clients[Len(new_clients)].seq)
              /\ pc' = "spawn"
    /\ UNCHANGED << cfg, retval, current_tick, shutdown_result, sema_closed,
                    sema_permits, entities, accept_spawns, task, sd_pc,
                    last_write, taken_write, spawned, released,
                    tick_snapshot,
                    tickVars >>

\* mutant: a blocking recv() in a loop that ends only when the channel is
\* disconnected
TryRecv_blocking ==
    /\ pc = "recv"
    /\ new_clients # << >>
    /\ msg' = Some(Head(new_clients))
    /\ new_clients' = Tail(new_clients)
    /\ range_left' = 0
    /\ recv_log' = Append(recv_log, Head(new_clients).seq)
    /\ tick_recv' = Append(tick_recv, Head(new_clients).seq)
    /\ pc' = "spawn"
    /\ UNCHANGED << cfg, retval, current_tick, shutdown_result, sema_closed,
                    sema_permits, entities, accept_spawns, task, sd_pc,
                    last_write, taken_write, spawned, released,
                    tick_snapshot, tickVars >>

\* next iteration of the range, `let Ok(msg) = try_recv() else { break }`
TryRecv ==
    /\ pc = "recv"
    /\ IF range_left = 0 \/ new_clients = << >>
         THEN /\ pc' = "simulate"
              /\ range_left' = 0
              /\ UNCHANGED << new_clients, msg, recv_log, tick_recv >>
         ELSE /\ msg' = Some(Head(new_clients))
              /\ new_clients' = Tail(new_clients)
              /\ range_left' = range_left - 1
              /\ recv_log' = Append(recv_log, Head(new_clients).seq)
              /\ tick_recv' = Append(tick_recv, Head(new_clients).seq)
              /\ pc' = "spawn"
    /\ UNCHANGED << cfg, retval, current_tick, shutdown_result, sema_closed,
                    sema_permits, entities, accept_spawns, task, sd_pc,
                    last_write, taken_write, spawned, released,
                    tick_snapshot,
                    tickVars >>

\* mutant: two entities are spawned for one message
Spawn_twice ==
    /\ pc = "spawn"
    /\ entities' = entities \cup {msg[1].conn}
    /\ spawned' = spawned + 2
    /\ pc' = "drop"
    /\ UNCHANGED << cfg, retval, current_tick, shutdown_result, sema_closed,
                    sema_permits, new_clients, range_left, msg, accept_spawns,
                    task, sd_pc, last_write, taken_write, recv_log,
                    released, tick_snapshot, tick_recv,
                    tickVars >>

\* `cfg.world.spawn(Client::new())`
Spawn ==
    /\ pc = "spawn"
    /\ entities' = entities \cup {msg[1].conn}
    /\ spawned' = spawned + 1
    /\ pc' = "drop"
    /\ UNCHANGED << cfg, retval, current_tick, shutdown_result, sema_closed,
                    sema_permits, new_clients, range_left, msg, accept_spawns,
                    task, sd_pc, last_write, taken_write, recv_log,
                    released, tick_snapshot, tick_recv,
                    tickVars >>

\* end of the loop body: `msg` goes out of scope and is dropped with its
\* OwnedSemaphorePermit, which returns the permit to connection_sema
DropMsg ==
    /\ pc = "drop"
    /\ sema_permits' = sema_permits + 1
    /\ released' = released \cup {msg[1].conn}
    /\ msg' = None
    /\ pc' = "recv"
    /\ UNCHANGED << cfg, retval, current_tick, shutdown_result, sema_closed,
                    new_clients, range_left, entities, accept_spawns, task,
                    sd_pc, last_write, taken_write, recv_log,
                    spawned, tick_snapshot, tick_recv,
                    tickVars >>

\* `schedule.run_once(&mut cfg.world)`: the user stage may despawn clients
RunOnce ==
    /\ pc = "simulate"
    /\ \E gone \in SUBSET entities : entities' = entities \ gone
    /\ tick_snapshot' = << >>
    /\ tick_recv' = << >>
    /\ passes' = passes + 1
    /\ pc' = "accept"
    /\ UNCHANGED << cfg, retval, current_tick, shutdown_result, sema_closed,
                    sema_permits, new_clients, range_left, msg, accept_spawns,
                    task, sd_pc, last_write, taken_write, recv_log,
                    spawned, released, last_tick_duration, slept >>

\* mutant: the accept loop is spawned on every tick
AcceptInit_every_tick ==
    /\ pc = "accept"
    /\ accept_spawns' = accept_spawns + 1
    /\ pc' = "pace"
    /\ UNCHANGED << cfg, retval, current_tick, shutdown_result, sema_closed,
                    sema_permits, new_clients, range_left, msg, entities, task,
                    sd_pc, last_write, taken_write, recv_log,
                    spawned, released, tick_snapshot, tick_recv,
                    tickVars >>

\* `if server.current_tick == 0 { tokio::spawn(do_accept_loop(..)); }`
AcceptInit ==
    /\ pc = "accept"
    /\ accept_spawns' = IF current_tick = 0 THEN accept_spawns + 1 ELSE accept_spawns
    /\ pc' = "pace"
    /\ UNCHANGED << cfg, retval, current_tick, shutdown_result, sema_closed,
                    sema_permits, new_clients, range_left, msg, entities, task,
                    sd_pc, last_write, taken_write, recv_log,
                    spawned, released, tick_snapshot, tick_recv,
                    tickVars >>

\* `Duration::from_secs_f64((shared.tick_rate() as f64).recip())`, in
\* nanoseconds
full_tick_duration(tick_rate) == 1000000000 \div tick_rate

\* what `tick_start.elapsed()` can return, in nanoseconds: less and more than
\* the period of 20 ticks per second
Elapsed == {20000000, 70000000}

\* mutant: plain subtraction
saturating_sub_plain(a, b) == a - b

\* Duration::saturating_sub
saturating_sub(a, b) == IF a > b THEN a - b ELSE 0

\* mutant: the counter makes up for an overrun by counting the missed tick
Pace_catches_up ==
    /\ pc = "pace"
    /\ \E elapsed \in Elapsed :
         /\ last_tick_duration' = elapsed
         /\ slept' = saturating_sub(full_tick_duration(cfg.tick_rate), elapsed)
         /\ current_tick' =
              IF elapsed > full_tick_duration(cfg.tick_rate)
                THEN current_tick + 2 ELSE current_tick + 1
    /\ pc' = "check"
    /\ UNCHANGED << cfg, retval, shutdown_result, sema_closed, sema_permits,
                    new_clients, range_left, msg, entities, accept_spawns, task,
                    sd_pc, last_write, taken_write, recv_log,
                    spawned, released, tick_snapshot, tick_recv, passes >>

\* `server.last_tick_duration = tick_start.elapsed();
\*  thread::sleep(full_tick_duration.saturating_sub(server.last_tick_duration));
\*  server.current_tick += 1; tick_start = Instant::now();`
Pace ==
    /\ pc = "pace"
    /\ \E elapsed \in Elapsed :
         /\ last_tick_duration' = elapsed
         /\ slept' = saturating_sub(full_tick_duration(cfg.tick_rate), elapsed)
    /\ current_tick' = current_tick + 1
    /\ pc' = "check"
    /\ UNCHANGED << cfg, retval, shutdown_result, sema_closed, sema_permits,
                    new_clients, range_left, msg, entities, accept_spawns, task,
                    sd_pc, last_write, taken_write, recv_log,
                    spawned, released, tick_snapshot, tick_recv, passes >>

Loop ==
    \/ ShutdownCheck
    \/ IntakeLen
    \/ TryRecv
    \/ Spawn
    \/ DropMsg
    \/ RunOnce
    \/ AcceptInit
    \/ Pace

\* ------------------------------------------------- SharedServer::shutdown
\* The SharedServer is created inside run_server; other code first gets hold
\* of it through the Server resource during the first schedule.run_once, or
\* through do_accept_loop, and may keep a clone after run_server returned.
SharedReachable == pc \in {"simulate", "accept", "pace"} \/ current_tick > 0

\* mutant: shutdown does not close the limiter
ShutdownClose_no_close(t) ==
    /\ sd_pc[t] = "idle"
    /\ \A u \in Callers : u < t => sd_pc[u] # "idle"
    /\ SharedReachable
    /\ sd_pc' = [sd_pc EXCEPT ![t] = "closed"]
    /\ UNCHANGED << cfg, shutdown_result, sema_closed, sema_permits,
                    new_clients, task, last_write, released,
                    loopVars >>

\* Callers are interchangeable: they are numbered in the order of their calls.
\* `self.0.connection_sema.close();`
ShutdownClose(t) ==
    /\ sd_pc[t] = "idle"
    /\ \A u \in Callers : u < t => sd_pc[u] # "idle"
    /\ SharedReachable
    /\ sema_closed' = TRUE
    /\ sd_pc' = [sd_pc EXCEPT ![t] = "closed"]
    /\ UNCHANGED << cfg, shutdown_result, sema_permits, new_clients, task,
                    last_write, released, loopVars >>

\* mutant: a result already in the slot is kept (first writer wins)
ShutdownWrite_keeps_first(t) ==
    /\ sd_pc[t] = "closed"
    /\ \E res \in Args :
         /\ shutdown_result' =
              IF shutdown_result = None THEN Some(MapErr(res)) ELSE shutdown_result
         /\ last_write' = Some(res)
    /\ sd_pc' = [sd_pc EXCEPT ![t] = "done"]
    /\ UNCHANGED << cfg, sema_closed, sema_permits, new_clients, task,
                    released, loopVars >>

\* mutant: the second statement stores nothing
ShutdownWrite_writes_nothing(t) ==
    /\ sd_pc[t] = "closed"
    /\ sd_pc' = [sd_pc EXCEPT ![t] = "done"]
    /\ UNCHANGED << cfg, shutdown_result, last_write, sema_closed, sema_permits,
                    new_clients, task, released, loopVars >>

\* `*self.0.shutdown_result.lock().unwrap() = Some(res.map_err(|e| e.into()));`
\* (`res` is the caller's argument; nothing reads it before this statement)
ShutdownWrite(t) ==
    /\ sd_pc[t] = "closed"
    /\ \E res \in Args :
         /\ shutdown_result' = Some(MapErr(res))
         /\ last_write' = Some(res)
    /\ sd_pc' = [sd_pc EXCEPT ![t] = "done"]
    /\ UNCHANGED << cfg, sema_closed, sema_permits, new_clients, task,
                    released, loopVars >>

\* ------------------------------------- connection tasks of do_accept_loop
\* Connections are interchangeable: they are numbered in the order in which
\* their acquire resolves.
\* acquire on connection_sema: fails once closed, else takes a permit when
\* one is available, else stays pending
TaskAcquire(c) ==
    /\ task[c] = "connecting"
    /\ \A d \in Tasks : d < c => task[d] # "connecting"
    /\ accept_spawns > 0
    /\ IF sema_closed
         THEN /\ task' = [task EXCEPT ![c] = "rejected"]
              /\ UNCHANGED sema_permits
         ELSE /\ sema_permits > 0
              /\ sema_permits' = sema_permits - 1
              /\ task' = [task EXCEPT ![c] = "holding"]
    /\ UNCHANGED << cfg, shutdown_result, sema_closed, new_clients, sd_pc,
                    last_write, released, loopVars >>

\* number of sends that have completed
SentCount == Cardinality({c \in Tasks : task[c] = "sent"})

\* send of the NewClientMessage carrying the permit; suspends while full
TaskSend(c) ==
    /\ task[c] = "holding"
    /\ Len(new_clients) < ChannelCap
    /\ new_clients' = Append(new_clients, [conn |-> c, seq |-> SentCount + 1])
    /\ task' = [task EXCEPT ![c] = "sent"]
    /\ UNCHANGED << cfg, shutdown_result, sema_closed, sema_permits, sd_pc,
                    last_write, released, loopVars >>

\* a connection that fails before the handoff drops its permit
TaskAbort(c) ==
    /\ task[c] = "holding"
    /\ sema_permits' = sema_permits + 1
    /\ task' = [task EXCEPT ![c] = "aborted"]
    /\ UNCHANGED << cfg, shutdown_result, sema_closed, new_clients, sd_pc,
                    last_write, released, loopVars >>

Next ==
    \/ Startup
    \/ Loop
    \/ \E t \in Callers : ShutdownClose(t)
    \/ \E t \in Callers : ShutdownWrite(t)
    \/ \E c \in Tasks : TaskAcquire(c)
    \/ \E c \in Tasks : TaskSend(c)
    \/ \E c \in Tasks : TaskAbort(c)

Spec == Init /\ [][Next]_vars

\* the loop thread is scheduled, and each pass and each sleep finishes
FairSpec == Spec /\ WF_vars(Loop)

\* ------------------------------------------------------------ properties
IsPrefix(s, t) == Len(s) <= Len(t) /\ \A i \in 1..Len(s) : s[i] = t[i]
NoDuplicates(s) == \A i, j \in 1..Len(s) : s[i] = s[j] => i = j

\* permits that are out of the limiter: held by a connection task, carried by
\* a queued message, or carried by the message bound in the intake loop body
Outstanding ==
    Cardinality({c \in Tasks : task[c] = "holding"}) + Len(new_clients)
        + (IF msg # None THEN 1 ELSE 0)

\* C1: when run_server has returned from the tick loop, its result is the
\* argument of the latest shutdown call whose write preceded the loop's take:
\* success for success, the same failure for a failure, and never a value
\* that no shutdown call wrote.
C1_ReturnsLastWrittenResult ==
    pc = "returned" =>
        /\ retval # None
        /\ taken_write # None
        /\ taken_write[1].ok => retval[1] = AnyOk
        /\ ~taken_write[1].ok =>
              /\ ~retval[1].ok
              /\ retval[1].anyhow = taken_write[1].e

\* a second caller is between its two statements while the loop has returned
\* the failure the first one wrote
C1_Witness ==
    /\ pc = "returned"
    /\ retval = Some(AnyErr("e1"))
    /\ sd_pc[1] = "done"
    /\ sd_pc[2] = "closed"

\* C2: whenever the slot holds a result the limiter is closed; once closed
\* the limiter stays closed and no connection task obtains a permit; the
\* step that closes it takes no issued permit away.
C2_NoAdmissionAfterClose ==
    /\ [](shutdown_result # None => sema_closed)
    /\ [][sema_closed =>
            /\ sema_closed'
            /\ \A c \in Tasks : task'[c] = "holding" => task[c] = "holding"]_vars
    /\ [][(~sema_closed /\ sema_closed') =>
            /\ task' = task
            /\ new_clients' = new_clients
            /\ msg' = msg
            /\ sema_permits' = sema_permits]_vars

\* the slot holds a result, a pending acquire has failed, and a permit issued
\* before the close is still held
C2_Witness ==
    /\ shutdown_result # None
    /\ \E c, d \in Tasks : task[c] = "holding" /\ task[d] = "rejected"

\* C3: under FairSpec, a result written to the slot while the loop runs
\* leads to run_server returning.
C3_ShutdownLeadsToReturn ==
    (shutdown_result # None /\ pc # "returned") ~> (pc = "returned")

\* a shutdown request has completed while the loop is in the middle of an
\* iteration
C3_Witness ==
    /\ shutdown_result # None
    /\ pc = "simulate"
    /\ current_tick = 1

\* C4: run_server has returned from the loop only after a shutdown request
\* wrote the slot, and once the loop has started the only step that ends
\* run_server is the shutdown check finding a result.
C4_ExitOnlyByShutdown ==
    /\ [](pc = "returned" =>
            /\ last_write # None
            /\ \E t \in Callers : sd_pc[t] = "done")
    /\ [][(pc \notin {"start", "returned", "failed"}
             /\ pc' \in {"returned", "failed"}) =>
            /\ pc = "check"
            /\ shutdown_result # None
            /\ pc' = "returned"]_vars

\* the loop has returned after a single request, at the last tick the bound
\* allows
C4_Witness ==
    /\ pc = "returned"
    /\ current_tick = MaxTick
    /\ sd_pc[1] = "done"
    /\ sd_pc[2] = "idle"

\* C5: the number of live client entities is at most max_connections.
C5_LiveEntitiesBounded == Cardinality(entities) <= MaxConnections

\* C6: the permit of a handoff message is not released while the entity
\* spawned from that message is alive.
C6_PermitHeldWhileEntityAlive == \A m \in entities : m \notin released

\* C7: the limiter never has more than max_connections permits outstanding,
\* and the permits available plus the permits outstanding are always
\* max_connections (so a further acquire waits when all are out, and one
\* release admits one acquire).
C7_PermitsConserved ==
    /\ sema_permits >= 0
    /\ Outstanding <= MaxConnections
    /\ pc \notin {"start", "failed"} => sema_permits + Outstanding = MaxConnections

\* every permit is out and a further connection is waiting for one
C7_Witness ==
    /\ Outstanding = MaxConnections
    /\ sema_permits = 0
    /\ ~sema_closed
    /\ \E c \in Tasks : task[c] = "connecting"

\* C8: the messages received in one intake are a prefix of the channel
\* contents at the moment the intake read the length: at most K of them, and
\* none that was sent after the length was read.
C8_IntakeBoundedBySnapshot == IsPrefix(tick_recv, tick_snapshot)

\* the intake took its K messages and left one that arrived during the drain
C8_Witness ==
    /\ pc = "simulate"
    /\ tick_snapshot # << >>
    /\ tick_recv = tick_snapshot
    /\ new_clients # << >>

\* C9: the loop receives the messages in the order their sends completed.
C9_ReceivedInSendOrder ==
    \A i \in 1..Len(recv_log) : recv_log[i] = i

\* the third message received is the third one sent, and it comes from the
\* connection that was second to get its permit: sends completed in another
\* order than the acquires
C9_Witness ==
    /\ pc = "spawn"
    /\ Len(recv_log) = 3
    /\ msg[1].seq = 3
    /\ msg[1].conn = 2

\* C10: no message is received twice, every received message was sent, and
\* the number of spawned entities equals the number of messages received
\* (the spawn of the message in hand pending).
C10_ReceivedOnceSpawnedOnce ==
    /\ NoDuplicates(recv_log)
    /\ \A i \in 1..Len(recv_log) : recv_log[i] \in 1..SentCount
    /\ spawned = Len(recv_log) - (IF pc = "spawn" THEN 1 ELSE 0)

\* two messages were received in one intake and both entities exist
C10_Witness ==
    /\ pc = "simulate"
    /\ Len(tick_recv) >= 2
    /\ spawned = Len(recv_log)
    /\ Cardinality(entities) >= 2

\* the positions of the loop thread inside an iteration, after its check
InIteration == {"intake", "recv", "spawn", "drop", "simulate", "accept", "pace"}

\* C11: do_accept_loop is spawned at most once, and only when a simulation
\* pass has completed.
C11_AcceptStartedOnceAfterFirstPass ==
    /\ accept_spawns <= 1
    /\ accept_spawns > 0 => passes >= 1
    /\ \A c \in Tasks : task[c] # "connecting" => passes >= 1

\* the loop is in a later tick and the accept loop has been spawned once
C11_Witness ==
    /\ accept_spawns = 1
    /\ pc = "pace"
    /\ current_tick = 2

\* C12: with tick_rate <= 0, incoming_capacity = 0 or outgoing_capacity = 0
\* run_server is at its start or has returned an error, and nothing of the
\* loop has happened.
C12_InvalidConfigNeverRuns ==
    (cfg.tick_rate <= 0 \/ cfg.incoming_capacity = 0 \/ cfg.outgoing_capacity = 0) =>
        /\ pc \in {"start", "failed"}
        /\ pc = "failed" => (retval # None /\ ~retval[1].ok)
        /\ passes = 0
        /\ current_tick = 0
        /\ recv_log = << >>
        /\ spawned = 0
        /\ accept_spawns = 0

\* run_server has returned the error for an outgoing capacity of zero
C12_Witness ==
    /\ pc = "failed"
    /\ cfg.tick_rate > 0
    /\ cfg.incoming_capacity > 0
    /\ cfg.outgoing_capacity = 0
    /\ retval = Some(AnyErr("configured outgoing packet capacity must be nonzero"))

\* C13 as stated: a failure in the slot stays there until the loop takes it
\* and returns it; no later shutdown request makes it disappear.
C13_FailureNeverLost ==
    [][(shutdown_result # None /\ ~shutdown_result[1].ok) =>
          \/ (shutdown_result' # None /\ ~shutdown_result'[1].ok)
          \/ (pc = "check" /\ pc' = "returned" /\ retval' = shutdown_result)]_vars

\* C13 as amended: a failure in the slot stays there until the loop takes it
\* and returns it, or until a later shutdown request writes its own result
\* over it.
C13_FailureKeptUntilTakenOrOverwritten ==
    [][(shutdown_result # None /\ ~shutdown_result[1].ok) =>
          \/ shutdown_result' = shutdown_result
          \/ (pc = "check" /\ pc' = "returned" /\ retval' = shutdown_result)
          \/ \E t \in Callers : sd_pc[t] = "closed" /\ sd_pc'[t] = "done"]_vars

\* a failure is in the slot, the loop has not seen it, and a second request
\* is about to write
C13_Witness ==
    /\ shutdown_result = Some(AnyErr("e1"))
    /\ pc \in InIteration
    /\ sd_pc[1] = "done"
    /\ sd_pc[2] = "closed"

\* C14: the tick counter is 0 at the start, never decreases, rises by one at
\* a time, and equals the number of completed passes at every iteration
\* boundary (one pass per iteration).
C14_TickCountsPasses ==
    /\ [](pc = "start" => current_tick = 0)
    /\ [](passes = current_tick + (IF pc \in {"accept", "pace"} THEN 1 ELSE 0))
    /\ [][current_tick' = current_tick \/ current_tick' = current_tick + 1]_vars
    /\ [][passes' = passes \/ (passes' = passes + 1 /\ current_tick' = current_tick)]_vars

\* an iteration boundary after a tick that overran its period
C14_Witness ==
    /\ pc = "check"
    /\ current_tick = 2
    /\ passes = 2
    /\ last_tick_duration > full_tick_duration(cfg.tick_rate)

\* C15: after run_server has returned nothing of the loop moves; a result in
\* the slot stays until the loop takes it, and a check that finds a result
\* returns, so that only an iteration already past its check goes on.
C15_NoTickAfterShutdownObserved ==
    /\ [][pc = "returned" =>
            /\ pc' = "returned"
            /\ current_tick' = current_tick
            /\ passes' = passes
            /\ range_left' = range_left]_vars
    /\ [][shutdown_result # None =>
            \/ shutdown_result' # None
            \/ (pc = "check" /\ pc' = "returned")]_vars
    /\ [][(pc = "check" /\ shutdown_result # None) => pc' \in {"check", "returned"}]_vars

\* a result is written while the loop is in the middle of draining the channel
C15_Witness ==
    /\ shutdown_result # None
    /\ pc = "recv"
    /\ range_left > 0

\* C16 as stated: the loop never passes its shutdown check while the limiter
\* is closed.
C16_CloseAndWriteAtomic ==
    [][(pc = "check" /\ pc' = "intake") => ~sema_closed]_vars

\* C16 as amended: the loop passes its check only with an empty slot, and
\* with the limiter closed only while a shutdown call is between its two
\* statements.
C16_PassesCheckOnlyBeforeWrite ==
    [][(pc = "check" /\ pc' = "intake") =>
          /\ shutdown_result = None
          /\ sema_closed => \E t \in Callers : sd_pc[t] = "closed"]_vars

\* the loop has passed its check with the limiter closed and the slot empty
C16_Witness ==
    /\ pc = "intake"
    /\ sema_closed
    /\ shutdown_result = None
    /\ sd_pc[1] = "closed"

C18_ClosedOnlyByShutdown ==
    /\ [](sema_closed => \E t \in Callers : sd_pc[t] # "idle")
    /\ [][sema_closed' # sema_closed =>
            /\ sema_closed'
            /\ \E t \in Callers : sd_pc[t] = "idle" /\ sd_pc'[t] = "closed"]_vars

\* a connection has failed, shutdown has been called once, run_server has
\* returned, and the limiter is still closed
C18_Witness ==
    /\ sema_closed
    /\ sd_pc[1] = "done"
    /\ sd_pc[2] = "idle"
    /\ \E c \in Tasks : task[c] = "aborted"
    /\ pc = "returned"

\* C19: the sleep is max(0, period - last tick duration): never negative,
\* zero when the tick took the period or more, the remainder otherwise; and
\* the pass of each iteration runs whatever the last duration was.
C19_SleepIsRemainderOfPeriod ==
    (cfg.tick_rate > 0 /\ current_tick > 0) =>
        /\ slept >= 0
        /\ last_tick_duration >= 1000000000 \div cfg.tick_rate => slept = 0
        /\ last_tick_duration < 1000000000 \div cfg.tick_rate =>
              slept + last_tick_duration = 1000000000 \div cfg.tick_rate
        /\ pc = "check" => passes = current_tick

\* a tick overran: no sleep, and the next iteration is in its pass
C19_Witness ==
    /\ last_tick_duration = 70000000
    /\ slept = 0
    /\ pc = "simulate"
    /\ passes = current_tick

====
